---- MODULE Spec2Model ----
(***************************************************************************)
(* Sistema MCC (src/app.py): the Flask price calculator, its session gate, *)
(* the calculos audit log and the paginated history listing.               *)
(*                                                                         *)
(* Numbers.  The program computes with binary floats.  Every number of the *)
(* model is an exact fraction [n, d] (d > 0, lowest terms); the inputs are *)
(* short decimals, so the float result of the cascade differs from the     *)
(* exact one by far less than the distance to the next rounding boundary,  *)
(* except when the exact value lies exactly half-way between two cents:    *)
(* there the float may sit on either side, and round(x, 2) is modelled as  *)
(* a choice between the two neighbouring cents.  NaN and the infinities    *)
(* are outside the model's inputs.                                         *)
(***************************************************************************)
EXTENDS Integers, Sequences, FiniteSets, TLC

VARIABLES
    calculos,   \* table calculos: the rows, in rowid order
    formulas,   \* table formulas
    usuarios,   \* table usuarios
    productos,  \* table productos
    session,    \* per browser (cookie): the value of session.get('user')
    now,        \* CURRENT_TIMESTAMP, in whole seconds
    nOk,        \* number of /api/calcular responses with success: True
    resp        \* the last request and the response it got

vars == <<calculos, formulas, usuarios, productos, session, now, nOk, resp>>

(***************************************************************************)
(* Bounds of the model.                                                    *)
(***************************************************************************)
MaxRecords == 2      \* rows of calculos in Spec
MaxCalcRecords == 1  \* rows of calculos in SpecCalc
MaxClock == 1        \* seconds the clock may advance
MaxPage == 3         \* largest page number requested
MaxLimit == 2        \* largest limit requested

Clients == {"c1", "c2"}

(***************************************************************************)
(* Exact fractions standing for the program's floats.                      *)
(***************************************************************************)
Abs(x) == IF x < 0 THEN -x ELSE x

RECURSIVE GCD(_, _)
GCD(a, b) == IF b = 0 THEN a ELSE GCD(b, a % b)

\* n/d in lowest terms, d > 0.
R(n, d) ==
    LET g == GCD(Abs(n), d)
    IN  [n |-> n \div g, d |-> d \div g]

Z(i) == [n |-> i, d |-> 1]

\* floor(a / b) for b > 0 (Python's //).
FloorDiv(a, b) == IF a >= 0 THEN a \div b ELSE -((-a + b - 1) \div b)

RAdd(a, b) ==
    LET g == GCD(a.d, b.d)
    IN  R(a.n * (b.d \div g) + b.n * (a.d \div g), (a.d \div g) * b.d)

RMul(a, b) ==
    LET g1 == GCD(Abs(a.n), b.d)
        g2 == GCD(Abs(b.n), a.d)
    IN  R((a.n \div g1) * (b.n \div g2), (a.d \div g2) * (b.d \div g1))

RNeg(a) == [n |-> -a.n, d |-> a.d]
RAbs(a) == [n |-> Abs(a.n), d |-> a.d]

RLeq(a, b) ==
    LET g == GCD(a.d, b.d)
    IN  a.n * (b.d \div g) <= b.n * (a.d \div g)

RLt(a, b) == ~RLeq(b, a)

\* rate / 100
Pct(r) == RMul(r, [n |-> 1, d |-> 100])

\* round(x, 2): the nearest multiple of 0.01; `up` settles the half-way case,
\* where the float's last bit decides.
round2(x, up) ==
    LET y == RMul(Z(100), x)
        lo == FloorDiv(y.n, y.d)
        rem == y.n - lo * y.d
        c == IF 2 * rem < y.d THEN lo
             ELSE IF 2 * rem > y.d THEN lo + 1
             ELSE IF up THEN lo + 1 ELSE lo
    IN  R(c, 100)

(***************************************************************************)
(* JSON values of a request body, and float().                             *)
(***************************************************************************)
Absent == [t |-> "absent", s |-> "", n |-> 0, d |-> 1]
JStr(s) == [t |-> "str", s |-> s, n |-> 0, d |-> 1]
JNum(n, d) == [t |-> "num", s |-> "", n |-> R(n, d).n, d |-> R(n, d).d]

\* data.get(key, default)
Get(v, default) == IF v.t = "absent" THEN default ELSE v

\* The strings of the model that float() parses, with their values.
NumericStrings == {"12.5"}
StrValue(s) == IF s = "12.5" THEN R(25, 2) ELSE Z(0)

\* float(v): ok is FALSE where Python raises ValueError/TypeError.
float(v) ==
    IF v.t = "num" THEN [ok |-> TRUE, v |-> [n |-> v.n, d |-> v.d]]
    ELSE IF v.t = "str" /\ v.s \in NumericStrings
         THEN [ok |-> TRUE, v |-> StrValue(v.s)]
    ELSE [ok |-> FALSE, v |-> Z(0)]

(***************************************************************************)
(* The price computation of api_calcular (the six assignments).            *)
(***************************************************************************)
\* Variant: the VAT levied on the price alone, not on the excise-inclusive base.
CascadaIvaSobrePrecioBase(precio_base, ieps, iva, margen) ==
    LET importe_ieps == RMul(precio_base, Pct(ieps))
        base_iva == RAdd(precio_base, importe_ieps)
        importe_iva == RMul(precio_base, Pct(iva))
        costo_total == RAdd(RAdd(precio_base, importe_ieps), importe_iva)
        ganancia == RMul(costo_total, Pct(margen))
        precio_final == RAdd(costo_total, ganancia)
    IN  [importe_ieps |-> importe_ieps, base_iva |-> base_iva,
         importe_iva |-> importe_iva, costo_total |-> costo_total,
         ganancia |-> ganancia, precio_final |-> precio_final]

\* Variant: the excise left out of costo_total.
CascadaSinIeps(precio_base, ieps, iva, margen) ==
    LET importe_ieps == RMul(precio_base, Pct(ieps))
        base_iva == RAdd(precio_base, importe_ieps)
        importe_iva == RMul(base_iva, Pct(iva))
        costo_total == RAdd(precio_base, importe_iva)
        ganancia == RMul(costo_total, Pct(margen))
        precio_final == RAdd(costo_total, ganancia)
    IN  [importe_ieps |-> importe_ieps, base_iva |-> base_iva,
         importe_iva |-> importe_iva, costo_total |-> costo_total,
         ganancia |-> ganancia, precio_final |-> precio_final]

\* Lines 368-373 of api_calcular.
Cascada(precio_base, ieps, iva, margen) ==
    LET importe_ieps == RMul(precio_base, Pct(ieps))
        base_iva == RAdd(precio_base, importe_ieps)
        importe_iva == RMul(base_iva, Pct(iva))
        costo_total == RAdd(RAdd(precio_base, importe_ieps), importe_iva)
        ganancia == RMul(costo_total, Pct(margen))
        precio_final == RAdd(costo_total, ganancia)
    IN  [importe_ieps |-> importe_ieps, base_iva |-> base_iva,
         importe_iva |-> importe_iva, costo_total |-> costo_total,
         ganancia |-> ganancia, precio_final |-> precio_final]

(***************************************************************************)
(* init_db: CREATE TABLE IF NOT EXISTS, then the default rows of an empty  *)
(* table.  A table is the sequence of its rows; a table that does not      *)
(* exist yet is the empty sequence.                                        *)
(***************************************************************************)
FormulasSeed ==
    << [id |-> 1, nombre |-> "Formula General", ieps |-> Z(0), iva |-> Z(16),
        margen_ganancia |-> Z(30), activa |-> TRUE],
       [id |-> 2, nombre |-> "Bebidas Alcoholicas", ieps |-> Z(30), iva |-> Z(16),
        margen_ganancia |-> Z(40), activa |-> TRUE],
       [id |-> 3, nombre |-> "Tabacos", ieps |-> Z(160), iva |-> Z(16),
        margen_ganancia |-> Z(35), activa |-> TRUE],
       [id |-> 4, nombre |-> "Gasolinas", ieps |-> R(11, 2), iva |-> Z(16),
        margen_ganancia |-> Z(25), activa |-> TRUE],
       [id |-> 5, nombre |-> "Alimentos Basicos", ieps |-> Z(0), iva |-> Z(0),
        margen_ganancia |-> Z(20), activa |-> TRUE] >>

UsuariosSeed ==
    << [id |-> 1, username |-> "admin", password_hash |-> "admin123",
        nombre |-> "Administrador", rol |-> "admin", activo |-> TRUE] >>

ProductosSeed ==
    << [id |-> 1, nombre |-> "Chocolate Importado", categoria |-> "Dulces",
        precio_referencia |-> Z(50), activo |-> TRUE],
       [id |-> 2, nombre |-> "Vino Tinto", categoria |-> "Bebidas",
        precio_referencia |-> Z(150), activo |-> TRUE],
       [id |-> 3, nombre |-> "Cigarros", categoria |-> "Tabaco",
        precio_referencia |-> Z(30), activo |-> TRUE],
       [id |-> 4, nombre |-> "Gasolina Premium", categoria |-> "Combustible",
        precio_referencia |-> R(45, 2), activo |-> TRUE],
       [id |-> 5, nombre |-> "Arroz", categoria |-> "Alimentos",
        precio_referencia |-> Z(15), activo |-> TRUE] >>

\* Variant: the table dropped and created again.
InitDbCalculosRecreate(t) == << >>

\* CREATE TABLE IF NOT EXISTS calculos: an existing table keeps its rows.
InitDbCalculos(t) == t

InitDbFormulas(t) == IF Len(t) = 0 THEN FormulasSeed ELSE t
InitDbUsuarios(t) == IF Len(t) = 0 THEN UsuariosSeed ELSE t
InitDbProductos(t) == IF Len(t) = 0 THEN ProductosSeed ELSE t

(***************************************************************************)
(* Sessions and responses.                                                 *)
(***************************************************************************)
NoUser == [id |-> 0, username |-> "", nombre |-> "", rol |-> ""]

\* session without the key 'user'
NoSession == [present |-> FALSE, user |-> NoUser]

NoData ==
    [is_json |-> FALSE, producto |-> Absent, precio_base |-> Absent,
     ieps |-> Absent, iva |-> Absent, margen_ganancia |-> Absent]

NoResultado ==
    [precio_base |-> Z(0), importe_ieps |-> Z(0), importe_iva |-> Z(0),
     costo_total |-> Z(0), ganancia |-> Z(0), precio_final |-> Z(0),
     margen_porcentaje |-> Z(0)]

\* A response with status 200, as seen by client c for endpoint ep: `logged` is
\* whether the session held a user when the request arrived, `ran` whether the
\* view function was called.
Ok(c, ep) ==
    [endpoint |-> ep, client |-> c, logged |-> session[c].present, ran |-> TRUE,
     status |-> 200, success |-> TRUE, error |-> "", location |-> "",
     data |-> NoData, page_arg |-> Absent, limit_arg |-> Absent,
     id |-> 0, resultado |-> NoResultado,
     rows |-> << >>, total |-> 0, page |-> 0, total_pages |-> 0,
     ganancia_total |-> Z(0)]

\* jsonify({'success': False, 'error': str(e)}), 500
Error500(c, ep, e) ==
    [Ok(c, ep) EXCEPT !.status = 500, !.success = FALSE, !.error = e]

\* redirect(url_for(target)) returned by the view function
RedirectTo(c, ep, target) ==
    [Ok(c, ep) EXCEPT !.status = 302, !.location = target]

NoResp == [Ok("c1", "") EXCEPT !.ran = FALSE, !.status = 0, !.success = FALSE,
                               !.logged = FALSE]

(***************************************************************************)
(* require_login (before_request).                                         *)
(***************************************************************************)
allowed_routes == {"login", "static", "favicon"}

\* The endpoints (view function names) of the application.
PageEndpoints ==
    {"dashboard", "calculadora", "historial", "productos", "reportes",
     "configuracion"}

\* Those whose name starts with 'api_'.
ApiEndpoints ==
    {"api_estadisticas", "api_historial", "api_formulas", "api_productos",
     "api_calcular", "api_exportar_excel"}

Endpoints ==
    PageEndpoints \cup ApiEndpoints \cup
    {"index", "login", "logout", "admin_backup", "favicon", "health_check"}

\* TRUE when require_login answers the request itself, with the redirect.
require_login(ep, s) ==
    /\ ep \notin ApiEndpoints
    /\ ep \notin allowed_routes
    /\ ~s.present

\* A request of client c to endpoint ep: before_request, then the view.
Dispatch(c, ep, view) ==
    IF require_login(ep, session[c])
    THEN /\ resp' = [RedirectTo(c, ep, "login") EXCEPT !.ran = FALSE]
         /\ UNCHANGED <<calculos, formulas, usuarios, productos, session, now, nOk>>
    ELSE view

Init ==
    /\ calculos = InitDbCalculos(<< >>)
    /\ formulas = InitDbFormulas(<< >>)
    /\ usuarios = InitDbUsuarios(<< >>)
    /\ productos = InitDbProductos(<< >>)
    /\ session = [c \in Clients |-> NoSession]
    /\ now = 0
    /\ nOk = 0
    /\ resp = NoResp

\* init_db() run again on the existing database (a restart of the process).
init_db ==
    /\ calculos' = InitDbCalculos(calculos)
    /\ formulas' = InitDbFormulas(formulas)
    /\ usuarios' = InitDbUsuarios(usuarios)
    /\ productos' = InitDbProductos(productos)
    /\ UNCHANGED <<session, now, nOk, resp>>

\* A second of wall-clock time passes.
Tick ==
    /\ now < MaxClock
    /\ now' = now + 1
    /\ UNCHANGED <<calculos, formulas, usuarios, productos, session, nOk, resp>>

(***************************************************************************)
(* Pages, login, logout.                                                   *)
(***************************************************************************)
Usernames == {"admin", "otro"}
Passwords == {"admin123", "mala"}

\* SELECT * FROM usuarios WHERE username = ? AND activo = 1 (fetchone)
SelectUsuario(username) ==
    LET hits == {i \in 1..Len(usuarios) :
                    usuarios[i].username = username /\ usuarios[i].activo}
    IN  IF hits = {} THEN [found |-> FALSE, row |-> UsuariosSeed[1]]
        ELSE [found |-> TRUE,
              row |-> usuarios[CHOOSE i \in hits : \A j \in hits : i <= j]]

login_get(c) ==
    Dispatch(c, "login",
        /\ resp' = Ok(c, "login")
        /\ UNCHANGED <<calculos, formulas, usuarios, productos, session, now, nOk>>)

login(c, username, password) ==
    Dispatch(c, "login",
        LET user == SelectUsuario(username)
        IN  IF user.found /\ user.row.password_hash = password
            THEN /\ session' = [session EXCEPT ![c] =
                        [present |-> TRUE,
                         user |-> [id |-> user.row.id,
                                   username |-> user.row.username,
                                   nombre |-> user.row.nombre,
                                   rol |-> user.row.rol]]]
                 /\ resp' = [Ok(c, "login") EXCEPT !.location = "dashboard"]
                 /\ UNCHANGED <<calculos, formulas, usuarios, productos, now, nOk>>
            ELSE /\ resp' = [Ok(c, "login") EXCEPT !.success = FALSE,
                                !.error = "Credenciales incorrectas"]
                 /\ UNCHANGED <<calculos, formulas, usuarios, productos,
                                session, now, nOk>>)

logout(c) ==
    Dispatch(c, "logout",
        /\ session' = [session EXCEPT ![c] = NoSession]
        /\ resp' = RedirectTo(c, "logout", "login")
        /\ UNCHANGED <<calculos, formulas, usuarios, productos, now, nOk>>)

index(c) ==
    Dispatch(c, "index",
        /\ resp' = RedirectTo(c, "index",
                        IF session[c].present THEN "dashboard" ELSE "login")
        /\ UNCHANGED <<calculos, formulas, usuarios, productos, session, now, nOk>>)

\* dashboard, calculadora, historial, productos, reportes, configuracion
pagina(c, ep) ==
    Dispatch(c, ep,
        /\ resp' = Ok(c, ep)
        /\ UNCHANGED <<calculos, formulas, usuarios, productos, session, now, nOk>>)

favicon(c) ==
    Dispatch(c, "favicon",
        /\ resp' = [Ok(c, "favicon") EXCEPT !.status = 204]
        /\ UNCHANGED <<calculos, formulas, usuarios, productos, session, now, nOk>>)

health_check(c) ==
    Dispatch(c, "health_check",
        /\ resp' = Ok(c, "health_check")
        /\ UNCHANGED <<calculos, formulas, usuarios, productos, session, now, nOk>>)

admin_backup(c) ==
    Dispatch(c, "admin_backup",
        /\ resp' = IF session[c].user.rol # "admin"
                   THEN [Ok(c, "admin_backup") EXCEPT !.status = 403,
                            !.success = FALSE, !.error = "No autorizado"]
                   ELSE Ok(c, "admin_backup")
        /\ UNCHANGED <<calculos, formulas, usuarios, productos, session, now, nOk>>)

(***************************************************************************)
(* POST /api/calcular.                                                     *)
(***************************************************************************)
Body(producto, precio_base, ieps, iva, margen_ganancia) ==
    [is_json |-> TRUE, producto |-> producto, precio_base |-> precio_base,
     ieps |-> ieps, iva |-> iva, margen_ganancia |-> margen_ganancia]

\* Variant: the INSERT never committed.
InsertarSinCommit(t, row) == t

\* INSERT INTO calculos ... ; conn.commit()
Insertar(t, row) == Append(t, row)

\* Variant: session.get with a default instead of the KeyError.
UsuarioDeSesionOAnonimo(s) ==
    [ok |-> TRUE, username |-> IF s.present THEN s.user.username ELSE "anonimo"]

\* session['user']['username']: ok is FALSE where Python raises KeyError.
UsuarioDeSesion(s) ==
    [ok |-> s.present, username |-> s.user.username]

\* The five round(x, 2) of one request.
Redondeos == {"importe_ieps", "importe_iva", "costo_total", "ganancia", "precio_final"}

\* x lies exactly half-way between two cents.
HalfWay(x) ==
    LET y == RMul(Z(200), x)
    IN  y.d = 1 /\ y.n % 2 = 1

\* The ways the half-way cases of one request may fall: the set of amounts
\* rounded up.  With ganancia = 0.0 the floats costo_total and precio_final
\* are the same number, and round the same way.
Redondeo(x) ==
    {up \in SUBSET {f \in Redondeos : HalfWay(x[f])} :
        x.precio_final = x.costo_total =>
            ("precio_final" \in up <=> "costo_total" \in up)}

\* `cap` bounds the table.  On the way to the INSERT the handler fails on a
\* body that is not JSON, a field float() rejects, or a session without user;
\* then sqlite3 may raise (a locked or unwritable database), and the INSERT
\* fails on a NULL producto.
api_calcular(c, data, cap) ==
    /\ Len(calculos) < cap
    /\ Dispatch(c, "api_calcular",
        LET producto == data.producto
            precio_base == float(Get(data.precio_base, JNum(0, 1)))
            ieps == float(Get(data.ieps, JNum(0, 1)))
            iva == float(Get(data.iva, JNum(16, 1)))
            margen == float(Get(data.margen_ganancia, JNum(30, 1)))
            usuario == UsuarioDeSesion(session[c])
            e == IF ~data.is_json THEN "BadRequest"
                 ELSE IF ~(precio_base.ok /\ ieps.ok /\ iva.ok /\ margen.ok)
                      THEN "ValueError"
                 ELSE IF ~usuario.ok THEN "KeyError"
                 ELSE IF producto.t = "absent" THEN "IntegrityError"
                 ELSE ""
            Failed(err) ==
                /\ resp' = [Error500(c, "api_calcular", err) EXCEPT !.data = data]
                /\ UNCHANGED <<calculos, formulas, usuarios, productos,
                               session, now, nOk>>
            Stored(x, up) ==
                LET row == [id |-> Len(calculos) + 1,
                            producto |-> producto.s,
                            precio_base |-> precio_base.v,
                            ieps |-> ieps.v,
                            iva |-> iva.v,
                            margen_ganancia |-> margen.v,
                            precio_final |-> round2(x.precio_final, "precio_final" \in up),
                            ganancia |-> round2(x.ganancia, "ganancia" \in up),
                            usuario |-> usuario.username,
                            fecha |-> now]
                IN  /\ calculos' = Insertar(calculos, row)
                    /\ nOk' = nOk + 1
                    /\ resp' = [Ok(c, "api_calcular") EXCEPT
                            !.data = data,
                            !.id = row.id,
                            !.resultado =
                                [precio_base |-> precio_base.v,
                                 importe_ieps |-> round2(x.importe_ieps, "importe_ieps" \in up),
                                 importe_iva |-> round2(x.importe_iva, "importe_iva" \in up),
                                 costo_total |-> round2(x.costo_total, "costo_total" \in up),
                                 ganancia |-> row.ganancia,
                                 precio_final |-> row.precio_final,
                                 margen_porcentaje |-> margen.v]]
                    /\ UNCHANGED <<formulas, usuarios, productos, session, now>>
        IN  IF e # "" THEN Failed(e)
            ELSE \/ Failed("OperationalError")
                 \/ \E x \in {Cascada(precio_base.v, ieps.v, iva.v, margen.v)} :
                        \E up \in Redondeo(x) : Stored(x, up))

(***************************************************************************)
(* GET /api/historial.                                                     *)
(***************************************************************************)
\* The decimal strings of the model, and int().
StrOfInt(i) ==
    IF i = -1 THEN "-1"
    ELSE <<"0", "1", "2", "3", "4", "5", "6", "7", "8", "9">>[i + 1]

IntStrings == {StrOfInt(i) : i \in -1..9}

\* int(v): ok is FALSE where Python raises ValueError.
int(v) ==
    IF v.t = "num" THEN [ok |-> v.d = 1, v |-> v.n]
    ELSE IF v.t = "str" /\ v.s \in IntStrings
         THEN [ok |-> TRUE, v |-> CHOOSE i \in -1..9 : StrOfInt(i) = v.s]
    ELSE [ok |-> FALSE, v |-> 0]

\* ORDER BY fecha DESC: every order of the rows with fecha not increasing; SQL
\* leaves the order of rows with equal fecha open.
OrderByFechaDesc(t) ==
    LET n == Len(t)
        perms == {p \in [1..n -> 1..n] :
                    /\ \A i, j \in 1..n : i # j => p[i] # p[j]
                    /\ \A i, j \in 1..n : i < j => t[p[i]].fecha >= t[p[j]].fecha}
    IN  {[i \in 1..n |-> t[p[i]]] : p \in perms}

\* Variant: pages counted from 0.
OffsetPorPagina(page, limit) == page * limit

\* offset = (int(page) - 1) * int(limit)
Offset(page, limit) == (page - 1) * limit

\* LIMIT ? OFFSET ? of SQLite: a negative limit is no limit, a negative offset
\* is 0.
LimitOffset(rows, limit, offset) ==
    LET off == IF offset < 0 THEN 0 ELSE offset
        last == IF limit < 0 \/ off + limit > Len(rows) THEN Len(rows)
                ELSE off + limit
    IN  SubSeq(rows, off + 1, last)

\* a // b of Python, b # 0
PyFloorDiv(a, b) == IF b > 0 THEN FloorDiv(a, b) ELSE FloorDiv(-a, -b)

\* (total + int(limit) - 1) // int(limit)
TotalPages(total, limit) == PyFloorDiv(total + limit - 1, limit)

api_historial(c, page_arg, limit_arg) ==
    \E orden \in OrderByFechaDesc(calculos) :
        Dispatch(c, "api_historial",
            LET limit == int(Get(limit_arg, JNum(100, 1)))
                page == int(Get(page_arg, JNum(1, 1)))
                offset == Offset(page.v, limit.v)
                e == IF ~(page.ok /\ limit.ok) THEN "ValueError"
                     ELSE IF limit.v = 0 THEN "ZeroDivisionError"
                     ELSE ""
                failed == Error500(c, "api_historial", e)
                served == [Ok(c, "api_historial") EXCEPT
                              !.rows = LimitOffset(orden, limit.v, offset),
                              !.total = Len(calculos),
                              !.page = page.v,
                              !.total_pages = TotalPages(Len(calculos), limit.v)]
            IN  /\ resp' = [(IF e # "" THEN failed ELSE served) EXCEPT
                               !.page_arg = page_arg, !.limit_arg = limit_arg]
                /\ UNCHANGED <<calculos, formulas, usuarios, productos,
                               session, now, nOk>>)

(***************************************************************************)
(* The read-only API.                                                      *)
(***************************************************************************)
RECURSIVE SumGanancia(_)
\* SELECT SUM(ganancia) FROM calculos (... or 0)
SumGanancia(t) ==
    IF Len(t) = 0 THEN Z(0)
    ELSE RAdd(t[Len(t)].ganancia, SumGanancia(SubSeq(t, 1, Len(t) - 1)))

\* The counts per day and per product of the answer are left out.
api_estadisticas(c) ==
    Dispatch(c, "api_estadisticas",
        /\ resp' = [Ok(c, "api_estadisticas") EXCEPT
                        !.total = Len(calculos),
                        !.ganancia_total = round2(SumGanancia(calculos), TRUE)]
        /\ UNCHANGED <<calculos, formulas, usuarios, productos, session, now, nOk>>)

\* SELECT * FROM formulas WHERE activa = 1
api_formulas(c) ==
    Dispatch(c, "api_formulas",
        /\ resp' = [Ok(c, "api_formulas") EXCEPT
                        !.rows = SelectSeq(formulas, LAMBDA f : f.activa)]
        /\ UNCHANGED <<calculos, formulas, usuarios, productos, session, now, nOk>>)

\* SELECT * FROM productos WHERE activo = 1
api_productos(c) ==
    Dispatch(c, "api_productos",
        /\ resp' = [Ok(c, "api_productos") EXCEPT
                        !.rows = SelectSeq(productos, LAMBDA f : f.activo)]
        /\ UNCHANGED <<calculos, formulas, usuarios, productos, session, now, nOk>>)

\* The workbook is built from every row; the log line that follows reads
\* session['user']['username'].
api_exportar_excel(c) ==
    \E orden \in OrderByFechaDesc(calculos) :
        Dispatch(c, "api_exportar_excel",
            /\ resp' = IF UsuarioDeSesion(session[c]).ok
                       THEN [Ok(c, "api_exportar_excel") EXCEPT
                                !.rows = orden, !.total = Len(orden)]
                       ELSE Error500(c, "api_exportar_excel", "KeyError")
            /\ UNCHANGED <<calculos, formulas, usuarios, productos,
                           session, now, nOk>>)

(***************************************************************************)
(* The requests of the model.                                              *)
(***************************************************************************)
\* Bodies of POST /api/calcular in Spec: the example of the documentation,
\* a body without precio_base, a non-numeric price, a negative price, a
\* negative margin, a body without producto, and a body that is not JSON.
SysBodies ==
    { Body(JStr("Vino Tinto"), JNum(100, 1), JNum(30, 1), JNum(16, 1), JNum(40, 1)),
      Body(JStr("Arroz"), Absent, Absent, Absent, Absent),
      Body(JStr("Arroz"), JStr("abc"), Absent, Absent, Absent),
      Body(JStr("Arroz"), JNum(-5, 1), JNum(0, 1), JNum(16, 1), JNum(30, 1)),
      Body(JStr("Arroz"), JNum(50, 1), JNum(0, 1), JNum(0, 1), JNum(-10, 1)),
      Body(Absent, JNum(50, 1), JNum(0, 1), JNum(0, 1), JNum(20, 1)),
      NoData }

\* Bodies of POST /api/calcular in SpecCalc: every combination of these
\* prices and rates, and four more: a price given as a string, a price of 0,
\* the second example of the documentation, and a negative margin.
CalcPrecios == {JNum(100, 1), JNum(10004, 1000), JNum(5, 2), JNum(-5, 1)}
CalcIeps == {JNum(0, 1), JNum(30, 1), JNum(11, 2)}
CalcIva == {JNum(0, 1), JNum(16, 1)}
CalcMargen == {JNum(0, 1), JNum(40, 1)}

CalcBodies ==
    {Body(JStr("Vino Tinto"), p, e, i, m) :
        p \in CalcPrecios, e \in CalcIeps, i \in CalcIva, m \in CalcMargen}
    \cup
    { Body(JStr("Vino Tinto"), JStr("12.5"), JNum(30, 1), JNum(16, 1), JNum(-10, 1)),
      Body(JStr("Vino Tinto"), JNum(0, 1), JNum(0, 1), JNum(16, 1), JNum(30, 1)),
      Body(JStr("Vino Tinto"), JNum(50, 1), JNum(0, 1), JNum(0, 1), JNum(20, 1)),
      Body(JStr("Vino Tinto"), JNum(50, 1), JNum(11, 2), JNum(0, 1), JNum(-10, 1)) }

PageArgs == {Absent, JStr("abc")} \cup {JStr(StrOfInt(i)) : i \in 0..MaxPage}
LimitArgs == {Absent, JStr("abc")} \cup {JStr(StrOfInt(i)) : i \in -1..MaxLimit}

\* The body posted in SpecHist.
HistBody == Body(JStr("Arroz"), JNum(50, 1), JNum(0, 1), JNum(0, 1), JNum(20, 1))

Next ==
    \/ init_db
    \/ \E c \in Clients : login_get(c)
    \/ \E c \in Clients, u \in Usernames, p \in Passwords : login(c, u, p)
    \/ \E c \in Clients : logout(c)
    \/ \E c \in Clients : index(c)
    \/ \E c \in Clients, ep \in PageEndpoints : pagina(c, ep)
    \/ \E c \in Clients : favicon(c)
    \/ \E c \in Clients : health_check(c)
    \/ \E c \in Clients : admin_backup(c)
    \/ \E c \in Clients, data \in SysBodies : api_calcular(c, data, MaxRecords)
    \/ \E c \in Clients : api_historial(c, Absent, Absent)
    \/ \E c \in Clients : api_estadisticas(c)
    \/ \E c \in Clients : api_formulas(c)
    \/ \E c \in Clients : api_productos(c)
    \/ \E c \in Clients : api_exportar_excel(c)

Spec == Init /\ [][Next]_vars

\* The price computation alone: one browser logs in and posts bodies.
NextCalc ==
    \/ login("c1", "admin", "admin123")
    \/ \E data \in CalcBodies : api_calcular("c1", data, MaxCalcRecords)

SpecCalc == Init /\ [][NextCalc]_vars

\* The history listing: one browser logs in and posts, the clock advances,
\* and pages of the listing are requested.
NextHist ==
    \/ login("c1", "admin", "admin123")
    \/ Tick
    \/ api_calcular("c1", HistBody, MaxRecords)
    \/ \E p \in PageArgs, l \in LimitArgs : api_historial("c1", p, l)

SpecHist == Init /\ [][NextHist]_vars

(***************************************************************************)
(* Properties.                                                             *)
(***************************************************************************)
\* The last request was POST /api/calcular.
EsCalculo == resp.endpoint = "api_calcular"

\* The numbers of the last POST /api/calcular body, defaults applied.
ReqPrecio == float(Get(resp.data.precio_base, JNum(0, 1)))
ReqIeps == float(Get(resp.data.ieps, JNum(0, 1)))
ReqIva == float(Get(resp.data.iva, JNum(16, 1)))
ReqMargen == float(Get(resp.data.margen_ganancia, JNum(30, 1)))
ReqNumerico == ReqPrecio.ok /\ ReqIeps.ok /\ ReqIva.ok /\ ReqMargen.ok

Cien == [n |-> 100, d |-> 1]
MedioCentavo == [n |-> 1, d |-> 200]

\* r is a whole number of cents, and no other is nearer to x.
Redondeado(r, x) ==
    /\ RMul(Cien, r).d = 1
    /\ RLeq(RAbs(RAdd(r, RNeg(x))), MedioCentavo)

\* The six steps, written from the documentation.
exciseAmount == RMul(RMul(ReqPrecio.v, ReqIeps.v), [n |-> 1, d |-> 100])
vatBase == RAdd(ReqPrecio.v, exciseAmount)
vatAmount == RMul(RMul(vatBase, ReqIva.v), [n |-> 1, d |-> 100])
totalCost == RAdd(RAdd(ReqPrecio.v, exciseAmount), vatAmount)
profit == RMul(RMul(totalCost, ReqMargen.v), [n |-> 1, d |-> 100])
finalPrice == RAdd(totalCost, profit)

EjemploDoc ==
    Body(JStr("Vino Tinto"), JNum(100, 1), JNum(30, 1), JNum(16, 1), JNum(40, 1))

\* C1: every successful POST /api/calcular returns the six-step cascade of
\* its inputs, each amount rounded to the nearest cent, and the price as
\* given; 100, 30, 16, 40 gives 30.00, 20.80, 150.80, 60.32 and 211.12.
C1_Cascada ==
    (EsCalculo /\ resp.success) =>
        /\ ReqNumerico
        /\ resp.resultado.precio_base = ReqPrecio.v
        /\ Redondeado(resp.resultado.importe_ieps, exciseAmount)
        /\ Redondeado(resp.resultado.importe_iva, vatAmount)
        /\ Redondeado(resp.resultado.costo_total, totalCost)
        /\ Redondeado(resp.resultado.ganancia, profit)
        /\ Redondeado(resp.resultado.precio_final, finalPrice)
        /\ resp.resultado.margen_porcentaje = ReqMargen.v
        /\ (resp.data = EjemploDoc =>
                /\ resp.resultado.importe_ieps = R(3000, 100)
                /\ resp.resultado.importe_iva = R(2080, 100)
                /\ resp.resultado.costo_total = R(15080, 100)
                /\ resp.resultado.ganancia = R(6032, 100)
                /\ resp.resultado.precio_final = R(21112, 100))

\* The documentation's example was posted and answered with 211.12.
C1_Witness ==
    /\ EsCalculo /\ resp.success
    /\ resp.data = EjemploDoc
    /\ resp.resultado.precio_final = R(21112, 100)

\* C2: the rows of calculos are as many as the successful answers of
\* POST /api/calcular.
C2_UnRegistroPorExito == Len(calculos) = nOk

\* A calculation failed after another had succeeded.
C2_Witness ==
    /\ nOk >= 1
    /\ EsCalculo /\ resp.logged /\ ~resp.success

\* The last POST /api/calcular was rejected as a client error and stored nothing.
Rechazado4xx == resp.status \in 400..499 /\ ~resp.success /\ resp.id = 0

\* The last POST /api/calcular came from a logged-in session with a JSON
\* body, and the database did not fail.
CalculoAtendido ==
    /\ EsCalculo /\ resp.logged /\ resp.data.is_json
    /\ resp.error # "OperationalError"

\* C3: a request (of a logged-in session, the database working) with
\* precio_base <= 0 or margen_ganancia < 0 is rejected with a 4xx status and
\* stores no record.
C3_ValidacionRechaza ==
    /\ (CalculoAtendido /\ ReqNumerico
            /\ (RLeq(ReqPrecio.v, Z(0)) \/ RLt(ReqMargen.v, Z(0))))
        => Rechazado4xx
    /\ \A i \in 1..Len(calculos) :
            /\ RLt(Z(0), calculos[i].precio_base)
            /\ RLeq(Z(0), calculos[i].margen_ganancia)

\* Every route of the application but login and health (and the favicon stub).
Protegidas == Endpoints \ {"login", "health_check", "favicon"}

\* C4: without a logged-in session, a request to a route other than login
\* and health is refused (redirect, 401 or 403) and its view does not run;
\* login and health are served.
C4_RutasProtegidas ==
    (resp.endpoint \in Endpoints /\ ~resp.logged) =>
        /\ resp.endpoint \in Protegidas =>
                ~resp.ran /\ resp.status \in {302, 401, 403}
        /\ resp.endpoint \in {"login", "health_check"} =>
                resp.ran /\ resp.status = 200

\* C5: no step of the application changes or removes a row of calculos;
\* rows are only added at the end.
C5_SoloAgrega ==
    [][ /\ Len(calculos') >= Len(calculos)
        /\ \A i \in 1..Len(calculos) : calculos'[i] = calculos[i] ]_vars

\* A row stored with the rates of its request is still there, unchanged, after
\* init_db ran again and the log was exported.
C5_Witness ==
    /\ Len(calculos) >= 1
    /\ calculos[1].ieps = Z(30) /\ calculos[1].iva = Z(16)
    /\ calculos[1].margen_ganancia = Z(40)
    /\ resp.endpoint = "api_exportar_excel" /\ resp.success

\* C6: a request (of a logged-in session, the database working) without
\* precio_base, or with a field that is not a number, is rejected with a 4xx
\* status and stores no record.
C6_EntradaInvalidaRechaza ==
    (CalculoAtendido /\ (resp.data.precio_base.t = "absent" \/ ~ReqNumerico))
    => Rechazado4xx

\* The last request was GET /api/historial; its page and limit, defaults applied.
EsHistorial == resp.endpoint = "api_historial"
ReqPage == int(Get(resp.page_arg, JNum(1, 1)))
ReqLimit == int(Get(resp.limit_arg, JNum(100, 1)))

\* C7: with page >= 1 and limit >= 1, GET /api/historial returns the records
\* at positions (page-1)*limit+1 .. page*limit of the listing (those that
\* exist), total = the number of records and total_pages = ceil(total/limit);
\* 25 records, page 2, limit 10 give 10 records and 3 pages.
C7_Paginacion ==
    /\ (EsHistorial /\ ReqPage.ok /\ ReqLimit.ok /\ ReqPage.v >= 1 /\ ReqLimit.v >= 1) =>
        LET total == Len(calculos)
            first == (ReqPage.v - 1) * ReqLimit.v
            rest == IF total > first THEN total - first ELSE 0
            count == IF rest > ReqLimit.v THEN ReqLimit.v ELSE rest
        IN  /\ resp.status = 200 /\ resp.success
            /\ resp.total = total
            /\ resp.page = ReqPage.v
            /\ resp.total_pages * ReqLimit.v >= total
            /\ resp.total_pages * ReqLimit.v < total + ReqLimit.v
            /\ Len(resp.rows) = count
            /\ \E orden \in OrderByFechaDesc(calculos) :
                    \A k \in 1..count : resp.rows[k] = orden[first + k]
    /\ TotalPages(25, 10) = 3
    /\ LimitOffset([i \in 1..25 |-> i], 10, Offset(2, 10)) = [k \in 1..10 |-> 10 + k]

\* Page 2 with limit 1 of a log of two records was served: one record.
C7_Witness ==
    /\ EsHistorial /\ resp.success
    /\ ReqPage.ok /\ ReqPage.v = 2 /\ ReqLimit.ok /\ ReqLimit.v = 1
    /\ Len(calculos) = 2
    /\ Len(resp.rows) = 1

\* The 2-decimal outputs and the unrounded inputs of the last calculation
\* satisfy basePrice > 0 and all rates >= 0.
EntradasNoNegativas ==
    /\ EsCalculo /\ resp.success /\ ReqNumerico
    /\ RLt(Z(0), ReqPrecio.v)
    /\ RLeq(Z(0), ReqIeps.v) /\ RLeq(Z(0), ReqIva.v) /\ RLeq(Z(0), ReqMargen.v)

\* C8 as claimed: finalPrice >= totalCost >= vatBase >= basePrice, with the
\* rounded finalPrice and totalCost of the answer.
C8_CadenaConRedondeo ==
    EntradasNoNegativas =>
        /\ RLeq(resp.resultado.costo_total, resp.resultado.precio_final)
        /\ RLeq(vatBase, resp.resultado.costo_total)
        /\ RLeq(ReqPrecio.v, vatBase)

\* C8 as amended: finalPrice >= totalCost for the rounded outputs,
\* vatBase >= basePrice, and the rounded totalCost is below vatBase by at
\* most half a cent.
C8_CadenaMedioCentavo ==
    EntradasNoNegativas =>
        /\ RLeq(resp.resultado.costo_total, resp.resultado.precio_final)
        /\ RLeq(vatBase, RAdd(resp.resultado.costo_total, MedioCentavo))
        /\ RLeq(ReqPrecio.v, vatBase)

\* A calculation whose rounded totalCost is below its vatBase.
C8_Witness ==
    /\ EntradasNoNegativas
    /\ RLt(resp.resultado.costo_total, vatBase)

\* C9: in a page of GET /api/historial a record created later comes before
\* a record created earlier.
C9_MasRecientePrimero ==
    (EsHistorial /\ resp.success) =>
        \A i, j \in 1..Len(resp.rows) :
            i < j => resp.rows[i].id > resp.rows[j].id

\* C10: a POST /api/calcular of a session without user gets a 500 and adds
\* no row, and every row added carries the username of the user of the
\* requesting session.
C10_RegistroDelUsuario ==
    [][ /\ (resp' # resp /\ resp'.endpoint = "api_calcular"
                /\ ~session[resp'.client].present) =>
            /\ resp'.status = 500 /\ ~resp'.success
            /\ calculos' = calculos
        /\ (calculos' # calculos) =>
            /\ resp'.endpoint = "api_calcular"
            /\ session[resp'.client].present
            /\ Len(calculos') = Len(calculos) + 1
            /\ calculos'[Len(calculos')].usuario = session[resp'.client].user.username
      ]_vars

\* A session without user was refused by POST /api/calcular while the log
\* holds a row of admin.
C10_Witness ==
    /\ EsCalculo /\ ~resp.logged /\ resp.status = 500
    /\ Len(calculos) >= 1
    /\ \A i \in 1..Len(calculos) : calculos[i].usuario = "admin"

====
